---- MODULE Spec2Model ----
(***************************************************************************)
(* Model of liquibook's Depth<SIZE> (src/src/book/depth.h): the fixed      *)
(* array levels_[SIZE*2] of DepthLevel, bids in 0..SIZE-1 and asks in      *)
(* SIZE..2*SIZE-1, with its mutators and restoration queries.              *)
(*                                                                         *)
(* DepthLevel (depth_level.h) and the price constants (base/types.h) are   *)
(* not part of the source tree at hand; they are modelled from the         *)
(* specification's PriceLevel section.                                     *)
(*                                                                         *)
(* Specifications:                                                         *)
(*   Spec          the mutators and queries, limit prices as arguments     *)
(*   BookSpec      the owning book driving the Depth with restoration      *)
(*   QuerySpec     Spec for SIZE from 0 on, each query's result recorded   *)
(*   ShiftSpec     add_* and close_* on a Depth of MaxSize + 1 levels      *)
(*   AnyPriceSpec  Spec with the sentinel among the price arguments        *)
(***************************************************************************)
EXTENDS Integers, Sequences, FiniteSets, TLC

\* ---------------------------------------------------------------- bounds
MaxSize == 2        \* template parameter SIZE ranges over 1..MaxSize
MaxPrice == 3       \* price arguments range over 1..MaxPrice
MaxQty == 2         \* quantity arguments range over 1..MaxQty (0..MaxQty for deltas)
MaxTotalQty == 3    \* cap on the sum of all aggregate quantities held
MaxOrders == 2      \* cap on the sum of all order counts held
MaxBookOrders == 3  \* cap on the number of live orders of the owning book

\* ------------------------------------------------------- price constants
\* The unused-slot sentinel is the price a zeroed slot holds (the constructor
\* zeroes the array).  The market-order sort prices are reserved values that
\* sort ahead of every limit price on their side: above every bid, below
\* every ask.
INVALID_LEVEL_PRICE == 0
MARKET_ORDER_BID_SORT_PRICE == 2147483647
MARKET_ORDER_ASK_SORT_PRICE == 0

\* The arguments of the calls.  A price argument is the price of a limit
\* order: a positive value, never the unused-slot sentinel.  An order's
\* quantity is positive; a quantity change may be zero.
Sizes == 1..MaxSize
Prices == 1..MaxPrice
Qtys == 1..MaxQty
Deltas == 0..MaxQty

VARIABLES
  SIZE,      \* the template parameter of this Depth instance
  levels_,   \* DepthLevel levels_[SIZE*2], indexed 0..2*SIZE-1
  rest,      \* what the restoration query of the book's last event gave (BookSpec)
  run,       \* the add_bid calls made since the bid run was last empty
  book       \* the owning book's full order set (BookSpec)

vars == <<SIZE, levels_, rest, run, book>>

\* ------------------------------------------------------------ DepthLevel
\* DepthLevel::init
init(price) == [price |-> price, aggregate_qty |-> 0, order_count |-> 0]

\* DepthLevel::add_order
add_order(l, qty) ==
  [l EXCEPT !.aggregate_qty = @ + qty, !.order_count = @ + 1]

\* DepthLevel::close_order: the level after the close; the call returns
\* close_order_empty
close_order(l, qty) ==
  [l EXCEPT !.aggregate_qty = @ - qty, !.order_count = @ - 1]

close_order_empty(l, qty) == close_order(l, qty).order_count = 0

\* DepthLevel::increase_qty
increase_qty(l, qty) == [l EXCEPT !.aggregate_qty = @ + qty]

\* DepthLevel::decrease_qty
decrease_qty(l, qty) == [l EXCEPT !.aggregate_qty = @ - qty]

\* ------------------------------------------------------- Depth accessors
\* pointers into levels_ are indices; NULL is no index
NULL == -1

bids == 0
asks == SIZE
last_bid_level == SIZE - 1
last_ask_level == SIZE * 2 - 1
end == SIZE * 2

\* Depth::Depth: memset(levels_, 0, ...)
Depth == [i \in 0..(SIZE * 2 - 1) |->
            [price |-> 0, aggregate_qty |-> 0, order_count |-> 0]]

\* ------------------------------------------------------------ shifting
RECURSIVE insert_shift_smearing(_, _, _)
\* mutant: every copy reads the slot at the insertion point
insert_shift_smearing(lv, current_level, level) ==
  IF current_level >= level
  THEN insert_shift_smearing([lv EXCEPT ![current_level + 1] = lv[level]],
                             current_level - 1, level)
  ELSE lv

\* For SIZE = 1 the loop of insert_level_before starts one slot before the
\* level passed in (for bids, one before the array) and its test fails at
\* once: no slot is read or written there.
RECURSIVE insert_shift(_, _, _)
\* the while loop of insert_level_before
insert_shift(lv, current_level, level) ==
  IF current_level >= level
  THEN insert_shift([lv EXCEPT ![current_level + 1] = lv[current_level]],
                    current_level - 1, level)
  ELSE lv

\* mutant: the shift starts at the last level itself, so nothing is dropped
\* from the run's end and the copy lands one slot past it
insert_level_before_from_last(lv, level, last_level, price) ==
  [insert_shift(lv, last_level, level) EXCEPT ![level] = init(price)]

\* mutant: the new level is initialized without shifting the others down
insert_level_before_no_shift(lv, level, last_level, price) ==
  [lv EXCEPT ![level] = init(price)]

insert_level_before(lv, level, last_level, price) ==
  [insert_shift(lv, last_level - 1, level) EXCEPT ![level] = init(price)]

RECURSIVE erase_level_keep_last(_, _, _)
\* mutant: the levels are shifted up but the run's last slot is not blanked
erase_level_keep_last(lv, level, last_level) ==
  IF level < last_level
  THEN erase_level_keep_last([lv EXCEPT ![level] = lv[level + 1]],
                             level + 1, last_level)
  ELSE lv

\* mutant: the erased level is only blanked, the levels after it stay put
erase_level_no_shift(lv, level, last_level) ==
  [lv EXCEPT ![level] = init(INVALID_LEVEL_PRICE)]

RECURSIVE erase_level(_, _, _)
erase_level(lv, level, last_level) ==
  IF level < last_level
  THEN erase_level([lv EXCEPT ![level] = lv[level + 1]], level + 1, last_level)
  ELSE [lv EXCEPT ![last_level] = init(INVALID_LEVEL_PRICE)]

\* ---------------------------------------------------------------- find
\* The result of find_* is the array after the search (a slot may have been
\* created) and the level found (an index, or NULL).
RECURSIVE find_bid_loop(_, _, _, _)
\* the for loop of find_bid, from slot bid on
find_bid_loop(lv, bid, price, should_create) ==
  IF bid = asks
  THEN [lv |-> lv, level |-> NULL]
  ELSE IF lv[bid].price = price
  THEN [lv |-> lv, level |-> bid]
  ELSE IF should_create /\ lv[bid].price = INVALID_LEVEL_PRICE
  THEN [lv |-> [lv EXCEPT ![bid] = init(price)], level |-> bid]
  ELSE IF should_create /\ lv[bid].price < price
  THEN [lv |-> insert_level_before(lv, bid, last_bid_level, price), level |-> bid]
  ELSE find_bid_loop(lv, bid + 1, price, should_create)

RECURSIVE find_bid_loop_flipped(_, _, _, _)
\* mutant: the insert test compares the wrong way round (price too high)
find_bid_loop_flipped(lv, bid, price, should_create) ==
  IF bid = asks
  THEN [lv |-> lv, level |-> NULL]
  ELSE IF lv[bid].price = price
  THEN [lv |-> lv, level |-> bid]
  ELSE IF should_create /\ lv[bid].price = INVALID_LEVEL_PRICE
  THEN [lv |-> [lv EXCEPT ![bid] = init(price)], level |-> bid]
  ELSE IF should_create /\ lv[bid].price > price
  THEN [lv |-> insert_level_before(lv, bid, last_bid_level, price), level |-> bid]
  ELSE find_bid_loop_flipped(lv, bid + 1, price, should_create)

find_bid_flipped(lv, price, should_create) ==
  find_bid_loop_flipped(lv, bids, price, should_create)

find_bid(lv, price, should_create) ==
  find_bid_loop(lv, bids, price, should_create)

RECURSIVE find_ask_loop(_, _, _, _)
\* the for loop of find_ask, from slot ask on
find_ask_loop(lv, ask, price, should_create) ==
  IF ask = end
  THEN [lv |-> lv, level |-> NULL]
  ELSE IF lv[ask].price = price
  THEN [lv |-> lv, level |-> ask]
  ELSE IF should_create /\ lv[ask].price = INVALID_LEVEL_PRICE
  THEN [lv |-> [lv EXCEPT ![ask] = init(price)], level |-> ask]
  ELSE IF should_create /\ lv[ask].price > price
  THEN [lv |-> insert_level_before(lv, ask, last_ask_level, price), level |-> ask]
  ELSE find_ask_loop(lv, ask + 1, price, should_create)

RECURSIVE find_ask_loop_no_match(_, _, _, _)
\* mutant: a slot already holding the price is not recognised when a level
\* may be created
find_ask_loop_no_match(lv, ask, price, should_create) ==
  IF ask = end
  THEN [lv |-> lv, level |-> NULL]
  ELSE IF ~should_create /\ lv[ask].price = price
  THEN [lv |-> lv, level |-> ask]
  ELSE IF should_create /\ lv[ask].price = INVALID_LEVEL_PRICE
  THEN [lv |-> [lv EXCEPT ![ask] = init(price)], level |-> ask]
  ELSE IF should_create /\ lv[ask].price > price
  THEN [lv |-> insert_level_before(lv, ask, last_ask_level, price), level |-> ask]
  ELSE find_ask_loop_no_match(lv, ask + 1, price, should_create)

find_ask_no_match(lv, price, should_create) ==
  find_ask_loop_no_match(lv, asks, price, should_create)

find_ask(lv, price, should_create) ==
  find_ask_loop(lv, asks, price, should_create)

\* ------------------------------------------------------------ mutators
\* Each mutator gives the array after the call and the value returned
\* (ret is FALSE for the void ones).
\* mutant: when the search finds no room, the last bid level is given up
\* for the new price
add_bid_evicting(lv, price, qty) ==
  LET f == find_bid(lv, price, TRUE) IN
  IF f.level # NULL
  THEN [lv |-> [f.lv EXCEPT ![f.level] = add_order(@, qty)], ret |-> FALSE]
  ELSE [lv |-> [f.lv EXCEPT ![last_bid_level] = add_order(init(price), qty)],
        ret |-> FALSE]

add_bid(lv, price, qty) ==
  LET f == find_bid(lv, price, TRUE) IN
  IF f.level # NULL
  THEN [lv |-> [f.lv EXCEPT ![f.level] = add_order(@, qty)], ret |-> FALSE]
  ELSE [lv |-> f.lv, ret |-> FALSE]

\* mutant: an emptied level is reported but left in its slot
close_bid_no_erase(lv, price, qty) ==
  LET f == find_bid(lv, price, FALSE) IN
  IF f.level # NULL
  THEN [lv |-> [f.lv EXCEPT ![f.level] = close_order(@, qty)],
        ret |-> close_order_empty(f.lv[f.level], qty)]
  ELSE [lv |-> f.lv, ret |-> FALSE]

\* mutant: every close of a tracked level erases it
close_bid_always_erasing(lv, price, qty) ==
  LET f == find_bid(lv, price, FALSE) IN
  IF f.level # NULL
  THEN [lv |-> erase_level([f.lv EXCEPT ![f.level] = close_order(@, qty)],
                           f.level, last_bid_level),
        ret |-> TRUE]
  ELSE [lv |-> f.lv, ret |-> FALSE]

close_bid(lv, price, qty) ==
  LET f == find_bid(lv, price, FALSE) IN
  IF f.level # NULL
  THEN IF close_order_empty(f.lv[f.level], qty)
       THEN [lv |-> erase_level([f.lv EXCEPT ![f.level] = close_order(@, qty)],
                                f.level, last_bid_level),
             ret |-> TRUE]
       ELSE [lv |-> [f.lv EXCEPT ![f.level] = close_order(@, qty)], ret |-> FALSE]
  ELSE [lv |-> f.lv, ret |-> FALSE]

\* mutant: the level is looked up with should_create left at its default
increase_bid_creating(lv, price, qty_increase) ==
  LET f == find_bid(lv, price, TRUE) IN
  IF f.level # NULL
  THEN [lv |-> [f.lv EXCEPT ![f.level] = increase_qty(@, qty_increase)], ret |-> FALSE]
  ELSE [lv |-> f.lv, ret |-> FALSE]

increase_bid(lv, price, qty_increase) ==
  LET f == find_bid(lv, price, FALSE) IN
  IF f.level # NULL
  THEN [lv |-> [f.lv EXCEPT ![f.level] = increase_qty(@, qty_increase)], ret |-> FALSE]
  ELSE [lv |-> f.lv, ret |-> FALSE]

\* mutant: the quantity is taken off as if an order had left the level
decrease_bid_as_close(lv, price, qty_decrease) ==
  LET f == find_bid(lv, price, FALSE) IN
  IF f.level # NULL
  THEN [lv |-> [f.lv EXCEPT ![f.level] = close_order(@, qty_decrease)], ret |-> FALSE]
  ELSE [lv |-> f.lv, ret |-> FALSE]

decrease_bid(lv, price, qty_decrease) ==
  LET f == find_bid(lv, price, FALSE) IN
  IF f.level # NULL
  THEN [lv |-> [f.lv EXCEPT ![f.level] = decrease_qty(@, qty_decrease)], ret |-> FALSE]
  ELSE [lv |-> f.lv, ret |-> FALSE]

add_ask(lv, price, qty) ==
  LET f == find_ask(lv, price, TRUE) IN
  IF f.level # NULL
  THEN [lv |-> [f.lv EXCEPT ![f.level] = add_order(@, qty)], ret |-> FALSE]
  ELSE [lv |-> f.lv, ret |-> FALSE]

close_ask(lv, price, qty) ==
  LET f == find_ask(lv, price, FALSE) IN
  IF f.level # NULL
  THEN IF close_order_empty(f.lv[f.level], qty)
       THEN [lv |-> erase_level([f.lv EXCEPT ![f.level] = close_order(@, qty)],
                                f.level, last_ask_level),
             ret |-> TRUE]
       ELSE [lv |-> [f.lv EXCEPT ![f.level] = close_order(@, qty)], ret |-> FALSE]
  ELSE [lv |-> f.lv, ret |-> FALSE]

increase_ask(lv, price, qty_increase) ==
  LET f == find_ask(lv, price, FALSE) IN
  IF f.level # NULL
  THEN [lv |-> [f.lv EXCEPT ![f.level] = increase_qty(@, qty_increase)], ret |-> FALSE]
  ELSE [lv |-> f.lv, ret |-> FALSE]

\* mutant: a level whose quantity reaches zero is erased
decrease_ask_erasing(lv, price, qty_decrease) ==
  LET f == find_ask(lv, price, FALSE) IN
  IF f.level # NULL
  THEN IF decrease_qty(f.lv[f.level], qty_decrease).aggregate_qty = 0
       THEN [lv |-> erase_level(f.lv, f.level, last_ask_level), ret |-> FALSE]
       ELSE [lv |-> [f.lv EXCEPT ![f.level] = decrease_qty(@, qty_decrease)],
             ret |-> FALSE]
  ELSE [lv |-> f.lv, ret |-> FALSE]

decrease_ask(lv, price, qty_decrease) ==
  LET f == find_ask(lv, price, FALSE) IN
  IF f.level # NULL
  THEN [lv |-> [f.lv EXCEPT ![f.level] = decrease_qty(@, qty_decrease)], ret |-> FALSE]
  ELSE [lv |-> f.lv, ret |-> FALSE]

\* --------------------------------------------------- restoration queries
\* The result is the value returned, the out parameter restoration_price
\* and whether the call threw instead of returning (then nothing is returned
\* and the out parameter is not written: ret and restoration_price are
\* placeholders).
\* mutant: the last level is inspected instead of the one before it
needs_bid_restoration_at_last(lv) ==
  IF SIZE > 1
  THEN [ret |-> lv[last_bid_level].price # INVALID_LEVEL_PRICE,
        restoration_price |-> lv[last_bid_level].price,
        threw |-> FALSE]
  ELSE IF SIZE = 1
  THEN [ret |-> TRUE, restoration_price |-> MARKET_ORDER_BID_SORT_PRICE,
        threw |-> FALSE]
  ELSE [ret |-> FALSE, restoration_price |-> INVALID_LEVEL_PRICE, threw |-> TRUE]

needs_bid_restoration(lv) ==
  IF SIZE > 1
  THEN [ret |-> lv[last_bid_level - 1].price # INVALID_LEVEL_PRICE,
        restoration_price |-> lv[last_bid_level - 1].price,
        threw |-> FALSE]
  ELSE IF SIZE = 1
  THEN [ret |-> TRUE, restoration_price |-> MARKET_ORDER_BID_SORT_PRICE,
        threw |-> FALSE]
  ELSE [ret |-> FALSE, restoration_price |-> INVALID_LEVEL_PRICE, threw |-> TRUE]

\* mutant: the BBO-only case is missing, the first ask level is inspected
needs_ask_restoration_no_bbo(lv) ==
  [ret |-> lv[asks].price # INVALID_LEVEL_PRICE,
   restoration_price |-> lv[asks].price,
   threw |-> FALSE]

\* mutant: every Depth that is not multi-level is taken for BBO-only
needs_ask_restoration_no_throw(lv) ==
  IF SIZE > 1
  THEN [ret |-> lv[last_ask_level - 1].price # INVALID_LEVEL_PRICE,
        restoration_price |-> lv[last_ask_level - 1].price,
        threw |-> FALSE]
  ELSE [ret |-> TRUE, restoration_price |-> MARKET_ORDER_ASK_SORT_PRICE,
        threw |-> FALSE]

needs_ask_restoration(lv) ==
  IF SIZE > 1
  THEN [ret |-> lv[last_ask_level - 1].price # INVALID_LEVEL_PRICE,
        restoration_price |-> lv[last_ask_level - 1].price,
        threw |-> FALSE]
  ELSE IF SIZE = 1
  THEN [ret |-> TRUE, restoration_price |-> MARKET_ORDER_ASK_SORT_PRICE,
        threw |-> FALSE]
  ELSE [ret |-> FALSE, restoration_price |-> INVALID_LEVEL_PRICE, threw |-> TRUE]

\* ------------------------------------------------------- reading a run
BidRange == bids..last_bid_level
AskRange == asks..last_ask_level

Valid(lv, i) == lv[i].price # INVALID_LEVEL_PRICE
ValidIn(lv, range) == {i \in range : Valid(lv, i)}
NumValid(lv, range) == Cardinality(ValidIn(lv, range))
PricesIn(lv, range) == {lv[i].price : i \in ValidIn(lv, range)}
Tracked(lv, range, price) == price \in PricesIn(lv, range)
SlotsAt(lv, range, price) == {i \in range : lv[i].price = price}
SlotOf(lv, range, price) == CHOOSE i \in range : lv[i].price = price

RECURSIVE SumOver(_, _, _)
SumOver(lv, upto, field) ==
  IF upto < 0 THEN 0 ELSE lv[upto][field] + SumOver(lv, upto - 1, field)

TotalQty(lv) == SumOver(lv, end - 1, "aggregate_qty")
TotalOrders(lv) == SumOver(lv, end - 1, "order_count")

\* the caps that keep the counters of the model finite
WithinCaps(lv) == TotalQty(lv) <= MaxTotalQty /\ TotalOrders(lv) <= MaxOrders

\* a quantity is only taken from a level that holds at least that much
NoUnderflow(lv, range, price, qty) ==
  \A i \in range : lv[i].price = price => lv[i].aggregate_qty >= qty

\* ---------------------------------------------------------- bookkeeping
NoQuery == [side |-> "none", ret |-> FALSE, restoration_price |-> 0, threw |-> FALSE]
NoRun == [ok |-> FALSE, prices |-> {}]

\* the book's orders: per side and price, how many live orders have each
\* open quantity
MaxBookQty == MaxTotalQty + 1   \* cap on the sum of the open quantities
OrderQtys == 1..MaxBookQty
EmptyBook == [side \in {"bid", "ask"} |-> [p \in Prices |-> [q \in OrderQtys |-> 0]]]

Min(S) == CHOOSE x \in S : \A y \in S : x <= y
Max(S) == CHOOSE x \in S : \A y \in S : x >= y

\* run follows a sequence of add_bid calls that began on an empty bid run,
\* each with a new price strictly better than the worst price then tracked
RunAfterAddBid(price) ==
  IF NumValid(levels_, BidRange) = 0
  THEN [ok |-> TRUE, prices |-> {price}]
  ELSE IF run.ok /\ price \notin run.prices
          /\ price > Min(PricesIn(levels_, BidRange))
  THEN [ok |-> TRUE, prices |-> run.prices \cup {price}]
  ELSE NoRun

\* ----------------------------------------------------------------- Init
Init ==
  /\ SIZE \in Sizes
  /\ levels_ = Depth
  /\ rest = NoQuery
  /\ run = [ok |-> TRUE, prices |-> {}]
  /\ book = EmptyBook

\* a call of a mutator: r is what the call gives on levels_
Call(r, newrun) ==
  /\ levels_' = r.lv
  /\ rest' = NoQuery
  /\ run' = newrun
  /\ UNCHANGED <<SIZE, book>>

AddBid(price, qty) ==
  LET r == add_bid(levels_, price, qty) IN
  /\ WithinCaps(r.lv)
  /\ Call(r, RunAfterAddBid(price))

CloseBid(price, qty) ==
  /\ NoUnderflow(levels_, BidRange, price, qty)
  /\ Call(close_bid(levels_, price, qty), NoRun)

IncreaseBid(price, qty) ==
  LET r == increase_bid(levels_, price, qty) IN
  /\ WithinCaps(r.lv)
  /\ Call(r, NoRun)

DecreaseBid(price, qty) ==
  /\ NoUnderflow(levels_, BidRange, price, qty)
  /\ Call(decrease_bid(levels_, price, qty), NoRun)

AddAsk(price, qty) ==
  LET r == add_ask(levels_, price, qty) IN
  /\ WithinCaps(r.lv)
  /\ Call(r, run)

CloseAsk(price, qty) ==
  /\ NoUnderflow(levels_, AskRange, price, qty)
  /\ Call(close_ask(levels_, price, qty), run)

IncreaseAsk(price, qty) ==
  LET r == increase_ask(levels_, price, qty) IN
  /\ WithinCaps(r.lv)
  /\ Call(r, run)

DecreaseAsk(price, qty) ==
  /\ NoUnderflow(levels_, AskRange, price, qty)
  /\ Call(decrease_ask(levels_, price, qty), run)

\* a restoration query: it returns (SIZE >= 1) and writes only its out
\* parameter; levels_ is read, nothing of the Depth is written
NeedsBidRestoration ==
  /\ ~needs_bid_restoration(levels_).threw
  /\ UNCHANGED vars

NeedsAskRestoration ==
  /\ ~needs_ask_restoration(levels_).threw
  /\ UNCHANGED vars

Next ==
  \/ \E price \in Prices, qty \in Qtys : AddBid(price, qty)
  \/ \E price \in Prices, qty \in Qtys : CloseBid(price, qty)
  \/ \E price \in Prices, qty \in Deltas : IncreaseBid(price, qty)
  \/ \E price \in Prices, qty \in Deltas : DecreaseBid(price, qty)
  \/ \E price \in Prices, qty \in Qtys : AddAsk(price, qty)
  \/ \E price \in Prices, qty \in Qtys : CloseAsk(price, qty)
  \/ \E price \in Prices, qty \in Deltas : IncreaseAsk(price, qty)
  \/ \E price \in Prices, qty \in Deltas : DecreaseAsk(price, qty)
  \/ NeedsBidRestoration
  \/ NeedsAskRestoration

Spec == Init /\ [][Next]_vars

\* ------------------------------------------- queries with their results
\* The same Depth for every SIZE the template accepts, 0 included (a
\* zero-length levels_), with each restoration query leaving what it gave
\* in rest: the value returned and the out parameter, or that it threw.
AllSizes == 0..MaxSize

QueryInit ==
  /\ SIZE \in AllSizes
  /\ levels_ = Depth
  /\ rest = NoQuery
  /\ run = [ok |-> TRUE, prices |-> {}]
  /\ book = EmptyBook

\* mutant: the query takes the level it reports out of the run
QueryBidConsuming ==
  /\ rest' = [side |-> "bid"] @@ needs_bid_restoration(levels_)
  /\ levels_' = IF SIZE > 1
                THEN [levels_ EXCEPT ![last_bid_level - 1] = init(INVALID_LEVEL_PRICE)]
                ELSE levels_
  /\ UNCHANGED <<SIZE, run, book>>

QueryBid ==
  /\ rest' = [side |-> "bid"] @@ needs_bid_restoration(levels_)
  /\ UNCHANGED <<SIZE, levels_, run, book>>

QueryAsk ==
  /\ rest' = [side |-> "ask"] @@ needs_ask_restoration(levels_)
  /\ UNCHANGED <<SIZE, levels_, run, book>>

QueryNext ==
  \/ \E price \in Prices, qty \in Qtys : AddBid(price, qty)
  \/ \E price \in Prices, qty \in Qtys : CloseBid(price, qty)
  \/ \E price \in Prices, qty \in Deltas : IncreaseBid(price, qty)
  \/ \E price \in Prices, qty \in Deltas : DecreaseBid(price, qty)
  \/ \E price \in Prices, qty \in Qtys : AddAsk(price, qty)
  \/ \E price \in Prices, qty \in Qtys : CloseAsk(price, qty)
  \/ \E price \in Prices, qty \in Deltas : IncreaseAsk(price, qty)
  \/ \E price \in Prices, qty \in Deltas : DecreaseAsk(price, qty)
  \/ QueryBid
  \/ QueryAsk

QuerySpec == QueryInit /\ [][QueryNext]_vars

\* ------------------------------------------------ a Depth of more levels
\* The Depth one level larger than the largest of Spec, with one price more
\* than it has levels per side and room for a full run whose levels differ
\* in orders and quantity, driven by add_* and close_*: the calls that shift.
ShiftSize == MaxSize + 1
ShiftPrices == 1..(MaxPrice + 1)
ShiftMaxOrders == MaxOrders + 1
ShiftMaxTotalQty == MaxTotalQty + 1

ShiftInit ==
  /\ SIZE = ShiftSize
  /\ levels_ = Depth
  /\ rest = NoQuery
  /\ run = NoRun
  /\ book = EmptyBook

ShiftCaps(lv) ==
  TotalQty(lv) <= ShiftMaxTotalQty /\ TotalOrders(lv) <= ShiftMaxOrders

ShiftAddBid(price, qty) ==
  LET r == add_bid(levels_, price, qty) IN
  /\ ShiftCaps(r.lv)
  /\ Call(r, NoRun)

ShiftAddAsk(price, qty) ==
  LET r == add_ask(levels_, price, qty) IN
  /\ ShiftCaps(r.lv)
  /\ Call(r, NoRun)

ShiftCloseBid(price, qty) ==
  /\ NoUnderflow(levels_, BidRange, price, qty)
  /\ Call(close_bid(levels_, price, qty), NoRun)

ShiftCloseAsk(price, qty) ==
  /\ NoUnderflow(levels_, AskRange, price, qty)
  /\ Call(close_ask(levels_, price, qty), NoRun)

ShiftNext ==
  \/ \E price \in ShiftPrices, qty \in Qtys : ShiftAddBid(price, qty)
  \/ \E price \in ShiftPrices, qty \in Qtys : ShiftCloseBid(price, qty)
  \/ \E price \in ShiftPrices, qty \in Qtys : ShiftAddAsk(price, qty)
  \/ \E price \in ShiftPrices, qty \in Qtys : ShiftCloseAsk(price, qty)

ShiftSpec == ShiftInit /\ [][ShiftNext]_vars

\* ------------------------------------------------- any price argument
\* The same calls with every value a caller can pass as price, the
\* unused-slot sentinel included: Price is a plain integer type and no
\* mutator looks at the value before it searches for it.
AnyPrices == Prices \cup {INVALID_LEVEL_PRICE}

\* an order is only closed on a slot that counts at least one (on a slot at
\* the sentinel price the count can be zero)
HasOrder(lv, range, price) ==
  \A i \in range : lv[i].price = price => lv[i].order_count >= 1

AnyPriceCloseBid(price, qty) ==
  /\ HasOrder(levels_, BidRange, price)
  /\ CloseBid(price, qty)

AnyPriceCloseAsk(price, qty) ==
  /\ HasOrder(levels_, AskRange, price)
  /\ CloseAsk(price, qty)

AnyPriceNext ==
  \/ \E price \in AnyPrices, qty \in Qtys : AddBid(price, qty)
  \/ \E price \in AnyPrices, qty \in Qtys : AnyPriceCloseBid(price, qty)
  \/ \E price \in AnyPrices, qty \in Deltas : IncreaseBid(price, qty)
  \/ \E price \in AnyPrices, qty \in Deltas : DecreaseBid(price, qty)
  \/ \E price \in AnyPrices, qty \in Qtys : AddAsk(price, qty)
  \/ \E price \in AnyPrices, qty \in Qtys : AnyPriceCloseAsk(price, qty)
  \/ \E price \in AnyPrices, qty \in Deltas : IncreaseAsk(price, qty)
  \/ \E price \in AnyPrices, qty \in Deltas : DecreaseAsk(price, qty)
  \/ NeedsBidRestoration
  \/ NeedsAskRestoration

AnyPriceSpec == Init /\ [][AnyPriceNext]_vars

\* ------------------------------------------------------ the owning book
\* The book keeps every live order, forwards each order event to the Depth
\* and, after a close_* that returned true, asks needs_*_restoration and
\* feeds back every order of the next level beyond restoration_price.
RECURSIVE BagSum(_, _, _)
\* over the orders of one price level: their number (weigh = FALSE) or their
\* total open quantity (weigh = TRUE)
BagSum(orders, q, weigh) ==
  IF q = 0 THEN 0
  ELSE orders[q] * (IF weigh THEN q ELSE 1) + BagSum(orders, q - 1, weigh)

BookCount(b, side, price) == BagSum(b[side][price], MaxBookQty, FALSE)
BookQty(b, side, price) == BagSum(b[side][price], MaxBookQty, TRUE)
BookLevels(b, side) == {price \in Prices : BookCount(b, side, price) > 0}

RECURSIVE SetSum(_, _, _, _)
SetSum(b, side, prices, weigh) ==
  IF prices = {} THEN 0
  ELSE LET price == CHOOSE x \in prices : TRUE IN
       BagSum(b[side][price], MaxBookQty, weigh)
         + SetSum(b, side, prices \ {price}, weigh)

BookOrders(b) == SetSum(b, "bid", Prices, FALSE) + SetSum(b, "ask", Prices, FALSE)
BookTotalQty(b) == SetSum(b, "bid", Prices, TRUE) + SetSum(b, "ask", Prices, TRUE)

\* the next level of the book strictly worse than price, or NULL
NextLevelBeyond(b, side, price) ==
  LET worse == IF side = "bid"
               THEN {x \in BookLevels(b, side) : x < price}
               ELSE {x \in BookLevels(b, side) : x > price}
  IN IF worse = {} THEN NULL
     ELSE IF side = "bid" THEN Max(worse) ELSE Min(worse)

DepthAdd(lv, side, price, qty) ==
  IF side = "bid" THEN add_bid(lv, price, qty) ELSE add_ask(lv, price, qty)
DepthClose(lv, side, price, qty) ==
  IF side = "bid" THEN close_bid(lv, price, qty) ELSE close_ask(lv, price, qty)
DepthIncrease(lv, side, price, qty) ==
  IF side = "bid" THEN increase_bid(lv, price, qty) ELSE increase_ask(lv, price, qty)
DepthDecrease(lv, side, price, qty) ==
  IF side = "bid" THEN decrease_bid(lv, price, qty) ELSE decrease_ask(lv, price, qty)
DepthNeedsRestoration(lv, side) ==
  IF side = "bid" THEN needs_bid_restoration(lv) ELSE needs_ask_restoration(lv)

RECURSIVE ReAdd(_, _, _, _, _)
\* add_* for every order of the level: orders[q] orders of each quantity q
ReAdd(lv, side, price, orders, q) ==
  IF q = 0 THEN lv
  ELSE IF orders[q] = 0 THEN ReAdd(lv, side, price, orders, q - 1)
  ELSE ReAdd(DepthAdd(lv, side, price, q).lv, side, price,
             [orders EXCEPT ![q] = @ - 1], q)

\* the restoration step of the book after a close_* returned true
Restore(lv, b, side, need) ==
  IF need.ret /\ NextLevelBeyond(b, side, need.restoration_price) # NULL
  THEN LET price == NextLevelBeyond(b, side, need.restoration_price) IN
       ReAdd(lv, side, price, b[side][price], MaxBookQty)
  ELSE lv

\* a new order rests in the book
BookAdd(side, price, qty) ==
  /\ BookOrders(book) < MaxBookOrders
  /\ BookTotalQty(book) + qty <= MaxBookQty
  /\ book' = [book EXCEPT ![side][price][qty] = @ + 1]
  /\ levels_' = DepthAdd(levels_, side, price, qty).lv
  /\ rest' = NoQuery
  /\ UNCHANGED <<SIZE, run>>

\* an order leaves the book (cancelled or filled) with open quantity qty
BookClose(side, price, qty) ==
  /\ book[side][price][qty] > 0
  /\ LET b == [book EXCEPT ![side][price][qty] = @ - 1]
         c == DepthClose(levels_, side, price, qty)
         need == DepthNeedsRestoration(c.lv, side)
     IN /\ book' = b
        /\ levels_' = IF c.ret THEN Restore(c.lv, b, side, need) ELSE c.lv
        /\ rest' = IF c.ret THEN [side |-> side] @@ need ELSE NoQuery
  /\ UNCHANGED <<SIZE, run>>

\* an order's open quantity grows from qty by delta
BookIncrease(side, price, qty, delta) ==
  /\ book[side][price][qty] > 0
  /\ BookTotalQty(book) + delta <= MaxBookQty
  /\ book' = [book EXCEPT ![side][price][qty] = @ - 1,
                          ![side][price][qty + delta] = @ + 1]
  /\ levels_' = DepthIncrease(levels_, side, price, delta).lv
  /\ rest' = NoQuery
  /\ UNCHANGED <<SIZE, run>>

\* an order's open quantity shrinks from qty by delta and stays positive
BookDecrease(side, price, qty, delta) ==
  /\ book[side][price][qty] > 0
  /\ delta < qty
  /\ book' = [book EXCEPT ![side][price][qty] = @ - 1,
                          ![side][price][qty - delta] = @ + 1]
  /\ levels_' = DepthDecrease(levels_, side, price, delta).lv
  /\ rest' = NoQuery
  /\ UNCHANGED <<SIZE, run>>

BookNext ==
  \/ \E side \in {"bid", "ask"}, price \in Prices, qty \in Qtys :
       BookAdd(side, price, qty)
  \/ \E side \in {"bid", "ask"}, price \in Prices, qty \in OrderQtys :
       BookClose(side, price, qty)
  \/ \E side \in {"bid", "ask"}, price \in Prices, qty \in OrderQtys, delta \in Qtys :
       BookIncrease(side, price, qty, delta)
  \/ \E side \in {"bid", "ask"}, price \in Prices, qty \in OrderQtys, delta \in Qtys :
       BookDecrease(side, price, qty, delta)

BookSpec == Init /\ [][BookNext]_vars

\* ======================================================================
\* Properties
\* ======================================================================
LevelOf(lv, range, price) == lv[SlotOf(lv, range, price)]
Full(lv, range) == NumValid(lv, range) = SIZE

\* C1: in every reachable state the valid prices of the bid run are strictly
\* descending by index and those of the ask run strictly ascending, so no
\* price appears twice in a run.
C1_SortedRuns ==
  /\ \A i, j \in BidRange :
       (i < j /\ Valid(levels_, i) /\ Valid(levels_, j))
         => levels_[i].price > levels_[j].price
  /\ \A i, j \in AskRange :
       (i < j /\ Valid(levels_, i) /\ Valid(levels_, j))
         => levels_[i].price < levels_[j].price

\* a state with several levels on the bid side, from which an add_bid
\* inserts a new price in front of the tracked ones
C1_Witness ==
  /\ NumValid(levels_, BidRange) >= 2
  /\ \E price \in Prices :
       /\ ~Tracked(levels_, BidRange, price)
       /\ price > levels_[bids].price
       /\ add_bid(levels_, price, 1).lv[bids].price = price

\* C2: in every reachable state the valid slots of each run are a prefix of
\* the run: a sentinel slot is followed by sentinel slots only.
C2_ContiguousPrefix ==
  /\ \A i, j \in BidRange :
       (i < j /\ ~Valid(levels_, i)) => ~Valid(levels_, j)
  /\ \A i, j \in AskRange :
       (i < j /\ ~Valid(levels_, i)) => ~Valid(levels_, j)

\* a state in which closing the best bid erases the first slot of a run
\* that holds a further level behind it
C2_Witness ==
  /\ NumValid(levels_, BidRange) >= 2
  /\ levels_[bids].order_count = 1
  /\ close_bid(levels_, levels_[bids].price, levels_[bids].aggregate_qty).ret
  /\ close_bid(levels_, levels_[bids].price,
               levels_[bids].aggregate_qty).lv[bids].price = levels_[bids + 1].price

\* the run already holds SIZE valid levels, all strictly better than price
BidFullOfBetter(lv, price) ==
  Full(lv, BidRange) /\ \A x \in PricesIn(lv, BidRange) : x > price
AskFullOfBetter(lv, price) ==
  Full(lv, AskRange) /\ \A x \in PricesIn(lv, AskRange) : x < price

\* C4: from every reachable state, add_bid(p, q) (add_ask) leaves every slot
\* unchanged exactly when the run holds SIZE valid levels all strictly
\* better than p; otherwise p is a valid level of the run after the call.
C4_AddDroppedIffFullOfBetter ==
  \A price \in Prices, qty \in Qtys :
    /\ (add_bid(levels_, price, qty).lv = levels_) <=> BidFullOfBetter(levels_, price)
    /\ ~BidFullOfBetter(levels_, price)
         => Tracked(add_bid(levels_, price, qty).lv, BidRange, price)
    /\ (add_ask(levels_, price, qty).lv = levels_) <=> AskFullOfBetter(levels_, price)
    /\ ~AskFullOfBetter(levels_, price)
         => Tracked(add_ask(levels_, price, qty).lv, AskRange, price)

\* a full bid run of at least two levels and a price worse than all of
\* them, whose add_bid is dropped
C4_Witness ==
  /\ SIZE >= 2
  /\ \E price \in Prices :
       /\ BidFullOfBetter(levels_, price)
       /\ add_bid(levels_, price, 1).lv = levels_

\* C5: after SIZE + 1 add_bid calls that began on an empty bid run, each
\* with a new price strictly better than the worst price tracked at that
\* time, the bid run holds exactly SIZE valid levels and lacks only the worst
\* of the SIZE + 1 prices; and no run ever holds more than SIZE valid levels.
C5_CapacityBound ==
  /\ (run.ok /\ Cardinality(run.prices) = SIZE + 1)
       => /\ NumValid(levels_, BidRange) = SIZE
          /\ PricesIn(levels_, BidRange) = run.prices \ {Min(run.prices)}
  /\ NumValid(levels_, BidRange) <= SIZE
  /\ NumValid(levels_, AskRange) <= SIZE
  /\ DOMAIN levels_ = 0..(SIZE * 2 - 1)

\* SIZE + 1 such add_bid calls have been made on a Depth of two levels or more
C5_Witness ==
  /\ SIZE >= 2
  /\ run.ok
  /\ Cardinality(run.prices) = SIZE + 1

\* C6: from every reachable state, close_bid(p, q) (close_ask) returns true
\* exactly when p is tracked with order count 1; then p is no longer in the
\* run and the run has one valid level fewer.  When p is tracked with more
\* than one order it returns false and the level stays in its slot with
\* order count reduced by one and aggregate quantity reduced by q.
C6_CloseOn(range, price, qty, r) ==
  LET was == Tracked(levels_, range, price)
      slot == SlotOf(levels_, range, price)
  IN
  /\ r.ret <=> (was /\ levels_[slot].order_count = 1)
  /\ r.ret => /\ ~Tracked(r.lv, range, price)
              /\ NumValid(r.lv, range) = NumValid(levels_, range) - 1
  /\ (was /\ levels_[slot].order_count > 1)
       => /\ ~r.ret
          /\ r.lv = [levels_ EXCEPT ![slot] =
                       [price |-> price,
                        aggregate_qty |-> levels_[slot].aggregate_qty - qty,
                        order_count |-> levels_[slot].order_count - 1]]

C6_CloseReturn ==
  \A price \in Prices, qty \in Qtys :
    /\ NoUnderflow(levels_, BidRange, price, qty)
         => C6_CloseOn(BidRange, price, qty, close_bid(levels_, price, qty))
    /\ NoUnderflow(levels_, AskRange, price, qty)
         => C6_CloseOn(AskRange, price, qty, close_ask(levels_, price, qty))

\* a bid run with a one-order level, whose close erases it, next to a
\* two-order level, whose close does not
C6_Witness ==
  \E price \in Prices :
    /\ Tracked(levels_, BidRange, price)
    /\ LevelOf(levels_, BidRange, price).order_count = 2
    /\ LevelOf(levels_, BidRange, price).aggregate_qty >= 1
    /\ ~close_bid(levels_, price, 1).ret
    /\ close_bid(close_bid(levels_, price, 1).lv, price, 1).ret

\* C7: for SIZE > 1, from every reachable state, needs_bid_restoration
\* (needs_ask_restoration) called right after a close that returned true
\* returns true exactly when the run held SIZE valid levels before that
\* close; the price it gives is then the one in the slot before the run's
\* last slot, the worst price still tracked; when that slot is sentinel it
\* returns false.
C7_After(range, last_level, before, after, need, worst) ==
  /\ ~need.threw
  /\ need.ret <=> Full(before, range)
  /\ need.ret => /\ need.restoration_price = after[last_level - 1].price
                 /\ need.restoration_price = worst
  /\ ~Valid(after, last_level - 1) => ~need.ret

C7_RestorationAfterClose ==
  SIZE > 1 =>
    \A price \in Prices, qty \in Qtys :
      /\ (NoUnderflow(levels_, BidRange, price, qty)
            /\ close_bid(levels_, price, qty).ret)
           => LET after == close_bid(levels_, price, qty).lv IN
              C7_After(BidRange, last_bid_level, levels_, after,
                       needs_bid_restoration(after),
                       IF PricesIn(after, BidRange) = {} THEN INVALID_LEVEL_PRICE
                       ELSE Min(PricesIn(after, BidRange)))
      /\ (NoUnderflow(levels_, AskRange, price, qty)
            /\ close_ask(levels_, price, qty).ret)
           => LET after == close_ask(levels_, price, qty).lv IN
              C7_After(AskRange, last_ask_level, levels_, after,
                       needs_ask_restoration(after),
                       IF PricesIn(after, AskRange) = {} THEN INVALID_LEVEL_PRICE
                       ELSE Max(PricesIn(after, AskRange)))

\* a full bid run whose worst level holds one order: closing it erases the
\* level and the query then asks for restoration after the level before it
C7_Witness ==
  /\ SIZE > 1
  /\ Full(levels_, BidRange)
  /\ levels_[last_bid_level].order_count = 1
  /\ LET c == close_bid(levels_, levels_[last_bid_level].price,
                        levels_[last_bid_level].aggregate_qty)
     IN /\ c.ret
        /\ needs_bid_restoration(c.lv) =
             [ret |-> TRUE, restoration_price |-> levels_[last_bid_level - 1].price,
              threw |-> FALSE]

\* C8: for SIZE = 1 every restoration query returns true, with the bid-side
\* market-order sort price for bids and the ask-side one for asks, whatever
\* the Depth holds.
C8_BboAlwaysRestores ==
  SIZE = 1 =>
    /\ needs_bid_restoration(levels_) =
         [ret |-> TRUE, restoration_price |-> MARKET_ORDER_BID_SORT_PRICE,
          threw |-> FALSE]
    /\ needs_ask_restoration(levels_) =
         [ret |-> TRUE, restoration_price |-> MARKET_ORDER_ASK_SORT_PRICE,
          threw |-> FALSE]

\* a BBO-only Depth that tracks an ask level and no bid level, on which both
\* queries ask for restoration
C8_Witness ==
  /\ SIZE = 1
  /\ Valid(levels_, asks)
  /\ ~Valid(levels_, bids)
  /\ needs_ask_restoration(levels_).ret
  /\ needs_bid_restoration(levels_).ret

\* C9: from every reachable state, close_*, increase_* and decrease_* with a
\* price that is not a tracked level of the run leave every slot unchanged,
\* and close_* returns false.
C9_UntrackedIsNoOp ==
  \A price \in Prices, qty \in Deltas :
    /\ ~Tracked(levels_, BidRange, price)
         => /\ close_bid(levels_, price, qty) = [lv |-> levels_, ret |-> FALSE]
            /\ increase_bid(levels_, price, qty).lv = levels_
            /\ decrease_bid(levels_, price, qty).lv = levels_
    /\ ~Tracked(levels_, AskRange, price)
         => /\ close_ask(levels_, price, qty) = [lv |-> levels_, ret |-> FALSE]
            /\ increase_ask(levels_, price, qty).lv = levels_
            /\ decrease_ask(levels_, price, qty).lv = levels_

\* a bid run with a level and room left, and an untracked price better than
\* the tracked one, for which the three calls change nothing
C9_Witness ==
  /\ NumValid(levels_, BidRange) >= 1
  /\ ~Full(levels_, BidRange)
  /\ \E price \in Prices :
       /\ price > levels_[bids].price
       /\ increase_bid(levels_, price, 1).lv = levels_
       /\ decrease_bid(levels_, price, 1).lv = levels_
       /\ close_bid(levels_, price, 1) = [lv |-> levels_, ret |-> FALSE]

\* C10: from every reachable state, two adds at the same price, tracked
\* after the first, leave exactly one slot of the run at that price, whose
\* aggregate quantity has grown by q1 + q2 and whose order count by 2; on an
\* empty Depth the two adds give one occupied slot holding q1 + q2.
C10_Twice(range, price, q1, q2, first, second) ==
  LET qty0 == IF Tracked(levels_, range, price)
              THEN LevelOf(levels_, range, price).aggregate_qty ELSE 0
      count0 == IF Tracked(levels_, range, price)
                THEN LevelOf(levels_, range, price).order_count ELSE 0
  IN Tracked(first, range, price)
       => /\ Cardinality(SlotsAt(second, range, price)) = 1
          /\ LevelOf(second, range, price).aggregate_qty = qty0 + q1 + q2
          /\ LevelOf(second, range, price).order_count = count0 + 2
          /\ levels_ = Depth
               => /\ NumValid(second, range) = 1
                  /\ LevelOf(second, range, price).aggregate_qty = q1 + q2

C10_AddsAggregate ==
  \A price \in Prices, q1 \in Qtys, q2 \in Qtys :
    LET ask1 == add_ask(levels_, price, q1).lv
        ask2 == add_ask(ask1, price, q2).lv
        bid1 == add_bid(levels_, price, q1).lv
        bid2 == add_bid(bid1, price, q2).lv
    IN /\ C10_Twice(AskRange, price, q1, q2, ask1, ask2)
       /\ C10_Twice(BidRange, price, q1, q2, bid1, bid2)

\* two add_ask calls at one price have been made on an empty ask run: one
\* ask slot is occupied, with two orders and both quantities
C10_Witness ==
  /\ NumValid(levels_, AskRange) = 1
  /\ levels_[asks].order_count = 2
  /\ levels_[asks].aggregate_qty = 3
  /\ levels_[asks] = add_ask(add_ask(Depth, levels_[asks].price, 2).lv,
                             levels_[asks].price, 1).lv[asks]

\* the best n prices of a set: the n highest for bids, the n lowest for asks
BestOf(prices, side, n) ==
  {x \in prices :
     Cardinality({y \in prices : IF side = "bid" THEN y > x ELSE y < x}) < n}

\* C3: when the book follows the restoration protocol, after every event the
\* valid levels of each run are the best min(SIZE, number of book levels)
\* price levels of the book on that side, each with the book's order count
\* and aggregate quantity at that price.
C3_Side(side, range) ==
  /\ PricesIn(levels_, range) = BestOf(BookLevels(book, side), side, SIZE)
  /\ \A price \in PricesIn(levels_, range) :
       /\ LevelOf(levels_, range, price).order_count = BookCount(book, side, price)
       /\ LevelOf(levels_, range, price).aggregate_qty = BookQty(book, side, price)

C3_DepthMirrorsBook ==
  /\ C3_Side("bid", BidRange)
  /\ C3_Side("ask", AskRange)

\* a close has just erased a bid level of a full run of two or more levels,
\* restoration was asked for and the book's next level has been fed back
C3_Witness ==
  /\ SIZE >= 2
  /\ rest.side = "bid"
  /\ rest.ret
  /\ Full(levels_, BidRange)
  /\ levels_[last_bid_level].price < rest.restoration_price

\* the same on a BBO-only Depth, where the level fed back holds two orders
C3_WitnessBbo ==
  /\ SIZE = 1
  /\ rest.side = "ask"
  /\ rest.ret
  /\ levels_[asks].order_count = 2

\* C11: from every reachable state, add_bid(p, q) with p untracked and not
\* dropped, followed by close_bid(p, q), returns true; for SIZE = 1 every bid
\* slot is then unused (sentinel price, no quantity, no order); for SIZE > 1,
\* when p was the best bid after the add, the level that stood second after
\* the add is in the first bid slot after the close.
C11_AddThenCloseBid ==
  \A price \in Prices, qty \in Qtys :
    LET a == add_bid(levels_, price, qty).lv
        c == close_bid(a, price, qty)
    IN (~Tracked(levels_, BidRange, price) /\ a # levels_)
         => /\ c.ret
            /\ SIZE = 1 => \A i \in BidRange : c.lv[i] = init(INVALID_LEVEL_PRICE)
            /\ (SIZE > 1 /\ a[bids].price = price) => c.lv[bids] = a[bids + 1]

\* a bid run of two or more slots with a best level, and a better untracked
\* price: after the add and the close the former best level is first again
C11_Witness ==
  /\ SIZE > 1
  /\ Valid(levels_, bids)
  /\ \E price \in Prices :
       LET a == add_bid(levels_, price, 2).lv
           c == close_bid(a, price, 2)
       IN /\ price > levels_[bids].price
          /\ a[bids] = [price |-> price, aggregate_qty |-> 2, order_count |-> 1]
          /\ c.ret
          /\ c.lv[bids] = levels_[bids]

\* C12: from every reachable state, increase_bid(p, 0), decrease_bid(p, 0),
\* increase_ask(p, 0) and decrease_ask(p, 0) leave every slot unchanged, for
\* every price p, tracked or not.
C12_ZeroDeltaIsNoOp ==
  \A price \in Prices \cup {INVALID_LEVEL_PRICE} :
    /\ increase_bid(levels_, price, 0).lv = levels_
    /\ decrease_bid(levels_, price, 0).lv = levels_
    /\ increase_ask(levels_, price, 0).lv = levels_
    /\ decrease_ask(levels_, price, 0).lv = levels_

\* a bid level holding quantity next to an untracked price: the zero
\* changes of both prices leave the Depth as it is
C12_Witness ==
  \E tracked \in Prices, untracked \in Prices :
    /\ Tracked(levels_, BidRange, tracked)
    /\ LevelOf(levels_, BidRange, tracked).aggregate_qty > 0
    /\ ~Tracked(levels_, BidRange, untracked)
    /\ decrease_bid(levels_, tracked, 0).lv = levels_
    /\ increase_bid(levels_, untracked, 0).lv = levels_

\* C15: from every reachable state, increase_* and decrease_* on a tracked
\* price change the aggregate quantity of that level by +delta / -delta and
\* nothing else: order count, price, slot, number of valid levels and every
\* other slot stay, also when the quantity reaches zero.
C15_On(range, price, delta, up, down) ==
  LET slot == SlotOf(levels_, range, price) IN
  Tracked(levels_, range, price)
    => /\ up = [levels_ EXCEPT ![slot].aggregate_qty = @ + delta]
       /\ NumValid(up, range) = NumValid(levels_, range)
       /\ NoUnderflow(levels_, range, price, delta)
            => /\ down = [levels_ EXCEPT ![slot].aggregate_qty = @ - delta]
               /\ NumValid(down, range) = NumValid(levels_, range)
               /\ down[slot].price = price
               /\ down[slot].order_count = levels_[slot].order_count

C15_QtyChangeOnly ==
  \A price \in Prices, delta \in Deltas :
    /\ C15_On(BidRange, price, delta, increase_bid(levels_, price, delta).lv,
              decrease_bid(levels_, price, delta).lv)
    /\ C15_On(AskRange, price, delta, increase_ask(levels_, price, delta).lv,
              decrease_ask(levels_, price, delta).lv)

\* an ask level whose whole quantity a decrease_ask takes: the level stays
\* in its slot with quantity zero and its order
C15_Witness ==
  /\ Valid(levels_, asks)
  /\ levels_[asks].aggregate_qty > 0
  /\ levels_[asks].order_count = 1
  /\ decrease_ask(levels_, levels_[asks].price, levels_[asks].aggregate_qty).lv[asks]
       = [price |-> levels_[asks].price, aggregate_qty |-> 0, order_count |-> 1]

\* C18: from every reachable state, add_bid(p, q) followed by close_bid(p, q)
\* gives back the Depth exactly, unless the run was full and p untracked and
\* strictly better than the worst tracked price: then the result is the
\* prior run without its former worst level.  The same for asks.
C18_On(range, last_level, price, betterThanWorst, c) ==
  LET evicts == /\ Full(levels_, range)
                /\ ~Tracked(levels_, range, price)
                /\ betterThanWorst
  IN /\ ~evicts => c.lv = levels_
     /\ evicts => /\ c.lv # levels_
                  /\ c.lv = [levels_ EXCEPT ![last_level] = init(INVALID_LEVEL_PRICE)]
                  /\ Valid(levels_, last_level)

C18_AddCloseRestores ==
  \A price \in Prices, qty \in Qtys :
    /\ C18_On(BidRange, last_bid_level, price,
              \E x \in PricesIn(levels_, BidRange) : price > x,
              close_bid(add_bid(levels_, price, qty).lv, price, qty))
    /\ C18_On(AskRange, last_ask_level, price,
              \E x \in PricesIn(levels_, AskRange) : price < x,
              close_ask(add_ask(levels_, price, qty).lv, price, qty))

\* a full ask run of two levels and an untracked price between them: the
\* add evicts the worst level, and the close leaves only the best one
C18_Witness ==
  /\ SIZE = 2
  /\ Full(levels_, AskRange)
  /\ \E price \in Prices :
       LET c == close_ask(add_ask(levels_, price, 1).lv, price, 1) IN
       /\ levels_[asks].price < price
       /\ price < levels_[last_ask_level].price
       /\ c.ret
       /\ c.lv[asks] = levels_[asks]
       /\ ~Valid(c.lv, last_ask_level)

\* C14: for SIZE < 1 needs_bid_restoration and needs_ask_restoration throw
\* instead of returning; for SIZE >= 1 they never throw.
C14_ThrowsIffSizeBelowOne ==
  /\ needs_bid_restoration(levels_).threw <=> SIZE < 1
  /\ needs_ask_restoration(levels_).threw <=> SIZE < 1
  /\ rest.side # "none" => (rest.threw <=> SIZE < 1)

\* needs_ask_restoration has been called on a Depth of size 0 and threw
C14_Witness ==
  /\ SIZE = 0
  /\ rest.side = "ask"
  /\ rest.threw

SameRun(lv1, lv2, range) == \A i \in range : lv1[i] = lv2[i]

\* C17: the bid mutators and needs_bid_restoration leave every slot of the
\* ask run as it was, and the ask operations every slot of the bid run, from
\* every reachable state and also when a shift reaches the run's last slot.
C17_Mutators ==
  \A price \in Prices, qty \in Deltas :
    /\ SameRun(add_bid(levels_, price, qty).lv, levels_, AskRange)
    /\ SameRun(close_bid(levels_, price, qty).lv, levels_, AskRange)
    /\ SameRun(increase_bid(levels_, price, qty).lv, levels_, AskRange)
    /\ SameRun(decrease_bid(levels_, price, qty).lv, levels_, AskRange)
    /\ SameRun(add_ask(levels_, price, qty).lv, levels_, BidRange)
    /\ SameRun(close_ask(levels_, price, qty).lv, levels_, BidRange)
    /\ SameRun(increase_ask(levels_, price, qty).lv, levels_, BidRange)
    /\ SameRun(decrease_ask(levels_, price, qty).lv, levels_, BidRange)

C17_SidesIndependent ==
  /\ []C17_Mutators
  /\ [][/\ rest'.side = "bid" => SameRun(levels_', levels_, AskRange)
        /\ rest'.side = "ask" => SameRun(levels_', levels_, BidRange)]_vars

\* a full bid run next to a tracked ask level: an add_bid of a better price
\* shifts the bid run up to its last slot, the slot before the first ask
\* slot, and the ask level is as it was
C17_Witness ==
  /\ Full(levels_, BidRange)
  /\ SIZE >= 1
  /\ Valid(levels_, asks)
  /\ \E price \in Prices :
       /\ price > levels_[bids].price
       /\ add_bid(levels_, price, 1).lv[bids].price = price
       /\ add_bid(levels_, price, 1).lv[asks] = levels_[asks]

\* the valid levels of a run, each with its price, quantity and order count
LevelsIn(lv, range) == {lv[i] : i \in ValidIn(lv, range)}

\* the levels of run lv1 that are also tracked in lv2 come in the same order
SameOrder(lv1, lv2, range) ==
  \A i, j \in ValidIn(lv1, range) :
    (i < j /\ Tracked(lv2, range, lv1[i].price) /\ Tracked(lv2, range, lv1[j].price))
      => SlotOf(lv2, range, lv1[i].price) < SlotOf(lv2, range, lv1[j].price)

\* C16: from every reachable state, an add_* that brings a new price into
\* the run gives it a level with order count 1 and the added quantity; every
\* other level of the result is a level of the run before, with its price,
\* quantity and order count, in the same order; a full run loses exactly the
\* level of its last slot, a run with room loses none.  A close_* that
\* erases a level leaves exactly the other levels, unchanged and in order.
C16_Insert(range, last_level, price, qty, r) ==
  LET old == LevelsIn(levels_, range)
      new == LevelsIn(r, range)
      inserted == [price |-> price, aggregate_qty |-> qty, order_count |-> 1]
  IN (~Tracked(levels_, range, price) /\ r # levels_)
       => /\ LevelOf(r, range, price) = inserted
          /\ new \ {inserted} \subseteq old
          /\ SameOrder(levels_, r, range)
          /\ Full(levels_, range) => old \ new = {levels_[last_level]}
          /\ ~Full(levels_, range) => old \subseteq new

C16_Erase(range, price, c) ==
  c.ret => /\ LevelsIn(c.lv, range)
                = LevelsIn(levels_, range) \ {LevelOf(levels_, range, price)}
           /\ NumValid(c.lv, range) = NumValid(levels_, range) - 1
           /\ SameOrder(levels_, c.lv, range)

C16_ShiftsMoveWholeLevels ==
  \A price \in ShiftPrices, qty \in Qtys :
    /\ C16_Insert(BidRange, last_bid_level, price, qty, add_bid(levels_, price, qty).lv)
    /\ C16_Insert(AskRange, last_ask_level, price, qty, add_ask(levels_, price, qty).lv)
    /\ C16_Erase(BidRange, price, close_bid(levels_, price, qty))
    /\ C16_Erase(AskRange, price, close_ask(levels_, price, qty))

\* a full bid run of three levels that differ in quantity, and a new best
\* price: the add moves the first two levels down one slot each, whole, and
\* drops the third
C16_Witness ==
  /\ SIZE = 3
  /\ Full(levels_, BidRange)
  /\ levels_[bids].aggregate_qty # levels_[bids + 1].aggregate_qty
  /\ \E price \in ShiftPrices :
       LET r == add_bid(levels_, price, 1).lv IN
       /\ price > levels_[bids].price
       /\ r[bids] = [price |-> price, aggregate_qty |-> 1, order_count |-> 1]
       /\ r[bids + 1] = levels_[bids]
       /\ r[bids + 2] = levels_[bids + 1]
       /\ ~Tracked(r, BidRange, levels_[last_bid_level].price)

====
